---- MODULE Spec2Model ----
(***************************************************************************)
(* The life modelling problem (src/life/the-life-modelling-problem.ipynb): *)
(* a term assurance projected by three mutually recursive functions        *)
(* (num_in_force, num_deaths, num_lapses), the cash flows derived from     *)
(* them, their net present value, and the same functions as methods of a   *)
(* heavymodel.Model subclass (Term) whose methods are cached.              *)
(*                                                                         *)
(* Numbers are rationals [n, d] in lowest terms. The notebook computes in  *)
(* Python floats: every arithmetic operation rounds its exact result to    *)
(* the nearest float, ties to even. The model keeps that rounding, with a  *)
(* mantissa of MantBits bits in place of the 53 of a double, and no        *)
(* exponent range.                                                         *)
(***************************************************************************)
EXTENDS Integers, Sequences, FiniteSets, TLC

VARIABLES
    q, w,       \* the rate tables: dicts from time step to rate
    T, P, S,    \* term, premium, sum assured (module globals)
    pc,         \* the notebook cell the kernel is at
    i,          \* loop index of the cell's `for t in range(T+1)`
    out,        \* rows printed by the num_in_force table cell
    cf,         \* rows printed by the cash-flow table cell
    pv,         \* results of the npv cells
    err,        \* the exception that stopped the kernel, or "none"
    term,       \* the Term instances: cache and bookkeeping
    stack,      \* call stack of one plain (uncached) request
    result,     \* what the request returned
    lin         \* one linearity experiment on npv

vars == <<q, w, T, P, S, pc, i, out, cf, pv, err, term, stack, result, lin>>

-----------------------------------------------------------------------------
(* Bounds of the model *)

MaxT == 3        \* the longest term
MantBits == 4    \* bits in the mantissa of a float
RecursionLimit == 10   \* frames the interpreter allows on the call stack

-----------------------------------------------------------------------------
(* Exact rational arithmetic *)

Abs(x) == IF x < 0 THEN -x ELSE x

RECURSIVE GCD(_, _)
GCD(a, b) == IF b = 0 THEN a ELSE GCD(b, a % b)

Rat(n, d) ==
    LET g == GCD(Abs(n), Abs(d))
        s == IF d < 0 THEN -1 ELSE 1
    IN  [n |-> (s * n) \div g, d |-> (s * d) \div g]

RInt(k) == [n |-> k, d |-> 1]
RZero == RInt(0)
ROne == RInt(1)
RNeg(a) == [n |-> -a.n, d |-> a.d]
RAdd(a, b) ==
    LET l == (a.d \div GCD(a.d, b.d)) * b.d
    IN  Rat(a.n * (l \div a.d) + b.n * (l \div b.d), l)
RSub(a, b) == RAdd(a, RNeg(b))
RAbs(a) == [n |-> Abs(a.n), d |-> a.d]
RMul(a, b) ==
    LET g1 == GCD(Abs(a.n), b.d)
        g2 == GCD(Abs(b.n), a.d)
    IN  Rat((a.n \div g1) * (b.n \div g2), (a.d \div g2) * (b.d \div g1))
RLeq(a, b) ==
    LET g == GCD(a.d, b.d)
    IN  a.n * (b.d \div g) <= b.n * (a.d \div g)
RDiv(a, b) == Rat(a.n * b.d, a.d * b.n)

RECURSIVE RPow(_, _)
RPow(a, k) == IF k = 0 THEN ROne ELSE RMul(a, RPow(a, k - 1))

-----------------------------------------------------------------------------
(* Float arithmetic: the exact result, rounded *)

RECURSIVE Pow2(_)
Pow2(k) == IF k <= 0 THEN 1 ELSE 2 * Pow2(k - 1)

\* n/d * 2^(-e) with its integer part brought to exactly MantBits bits
RECURSIVE FlScale(_, _, _)
FlScale(n, d, e) ==
    IF n >= Pow2(MantBits) * d THEN FlScale(n, 2 * d, e + 1)
    ELSE IF n < Pow2(MantBits - 1) * d THEN FlScale(2 * n, d, e - 1)
    ELSE <<n, d, e>>

\* the float nearest to x, ties to the even mantissa
Fl(x) ==
    IF x.n = 0 THEN RZero
    ELSE LET sc == FlScale(Abs(x.n), x.d, 0)
             m == sc[1] \div sc[2]
             r == sc[1] - m * sc[2]
             up == 2 * r > sc[2] \/ (2 * r = sc[2] /\ m % 2 = 1)
             mm == IF up THEN m + 1 ELSE m
             sg == IF x.n < 0 THEN -1 ELSE 1
         IN  IF sc[3] >= 0 THEN Rat(sg * mm * Pow2(sc[3]), 1)
             ELSE Rat(sg * mm, Pow2(-sc[3]))

FAdd(a, b) == Fl(RAdd(a, b))
FSub(a, b) == Fl(RSub(a, b))
FMul(a, b) == Fl(RMul(a, b))
FDiv(a, b) == Fl(RDiv(a, b))
FPow(a, k) == Fl(RPow(a, k))

-----------------------------------------------------------------------------
(* Values and exceptions: a call returns a value or raises *)

Ok(v) == [err |-> "none", val |-> v]
Raise(kind) == [err |-> kind, val |-> RZero]

\* a - b, a * b on results; the left operand is evaluated first
Sub(a, b) == IF a.err # "none" THEN a ELSE IF b.err # "none" THEN b
             ELSE Ok(FSub(a.val, b.val))
Mul(a, b) == IF a.err # "none" THEN a ELSE IF b.err # "none" THEN b
             ELSE Ok(FMul(a.val, b.val))
Add(a, b) == IF a.err # "none" THEN a ELSE IF b.err # "none" THEN b
             ELSE Ok(FAdd(a.val, b.val))

\* q[t] on a dict: a missing key raises KeyError
Lookup(tab, t) == IF t \in DOMAIN tab THEN Ok(tab[t]) ELSE Raise("KeyError")

\* the module globals as one record
Env == [q |-> q, w |-> w, T |-> T, P |-> P, S |-> S]

-----------------------------------------------------------------------------
(* The plain recursive functions *)

RECURSIVE num_in_force(_, _), num_deaths(_, _), num_lapses(_, _)

\* mutant: the expiry test is t > T, so the contract is still live at T
num_in_force_late_expiry(e, t) ==
    IF t = 0 THEN Ok(ROne)
    ELSE IF t > e.T THEN Ok(RZero)
    ELSE Sub(Sub(num_in_force(e, t - 1), num_deaths(e, t - 1)),
             num_lapses(e, t - 1))

num_in_force(e, t) ==
    IF t = 0 THEN Ok(ROne)
    ELSE IF t >= e.T THEN Ok(RZero)
    ELSE Sub(Sub(num_in_force(e, t - 1), num_deaths(e, t - 1)),
             num_lapses(e, t - 1))

num_deaths(e, t) ==
    IF t < e.T THEN Mul(num_in_force(e, t), Lookup(e.q, t))
    ELSE Ok(RZero)

num_lapses(e, t) ==
    IF t < e.T THEN Mul(num_in_force(e, t), Lookup(e.w, t))
    ELSE Ok(RZero)

claims(e, t) == Mul(num_deaths(e, t), Ok(RInt(e.S)))

\* mutant: the premium is not weighted by the policies in force
premiums_flat(e, t) == Ok(RInt(e.P))

premiums(e, t) == Mul(num_in_force(e, t), Ok(RInt(e.P)))

net_cashflow(e, t) == Sub(premiums(e, t), claims(e, t))

-----------------------------------------------------------------------------
(* Present value *)

\* sum(cashflow(t) * v**(t+1) for t in range(k)): the first k terms, added
\* left to right from 0; the first term that raises ends the sum
RECURSIVE DiscountedSum(_, _, _)

\* mutant: the discount factor is added to the cash flow, not multiplied
DiscountedSum_adds_factor(cashflow, v, k) ==
    IF k <= 0 THEN Ok(RZero)
    ELSE Add(DiscountedSum(cashflow, v, k - 1),
             Add(cashflow[k - 1], Ok(FPow(v, k))))

DiscountedSum(cashflow, v, k) ==
    IF k <= 0 THEN Ok(RZero)
    ELSE Add(DiscountedSum(cashflow, v, k - 1),
             Mul(cashflow[k - 1], Ok(FPow(v, k))))

\* cashflow is a function from time step to the result of the call
npv(cashflow, horizon, int_rate) ==
    LET v == FDiv(ROne, FAdd(ROne, int_rate))
    IN  DiscountedSum(cashflow, v, horizon)

-----------------------------------------------------------------------------
(* Inputs *)

\* (q[t], w[t]) pairs a table row is drawn from
RatePairs ==
    { <<Rat(0, 1), Rat(1, 8)>>, <<Rat(3, 8), Rat(1, 4)>>,
      <<Rat(1, 8), Rat(1, 4)>>, <<Rat(5, 8), Rat(3, 8)>>,
      <<Rat(7, 8), Rat(1, 8)>> }

\* (P, S) pairs
Policies == { <<1, 5>>, <<3, 2>> }

\* flat interest rates: v = 1, 1/2, and 4/5 rounded to a float
IntRates == { Rat(0, 1), Rat(1, 1), Rat(1, 4) }

\* rate tables: the rates of the even and of the odd steps drawn
\* independently
TableRows ==
    { [t \in 0 .. MaxT - 1 |-> IF t % 2 = 0 THEN a ELSE b] :
        a \in RatePairs, b \in RatePairs }

MkEnv(rows, dq, dw, tt, pol) ==
    [q |-> [t \in dq |-> rows[t][1]], w |-> [t \in dw |-> rows[t][2]],
     T |-> tt, P |-> pol[1], S |-> pol[2]]

Steps == 0 .. MaxT - 1

\* valid configurations: a positive term, tables covering 0 .. T-1
Configs ==
    { MkEnv(rows, Steps, Steps, tt, pol) :
        rows \in TableRows, tt \in 1 .. MaxT, pol \in Policies }

\* the key sets of the two dicts: complete, or one of them lacks one key
KeySets ==
    { <<Steps, Steps>> }
        \cup { <<Steps \ {m}, Steps>> : m \in Steps }
        \cup { <<Steps, Steps \ {m}>> : m \in Steps }

\* two rate tables: constant rows, and rows alternating with t
RowsA == [t \in Steps |-> <<Rat(3, 8), Rat(1, 4)>>]
RowsB == [t \in Steps |->
            IF t % 2 = 0 THEN <<Rat(0, 1), Rat(1, 8)>>
            ELSE <<Rat(1, 8), Rat(1, 4)>>]

\* every configuration the notebook accepts: the term may be 0 and a table
\* may lack a key
AnyConfigs ==
    { MkEnv(rows, ks[1], ks[2], tt, pol) :
        rows \in {RowsA, RowsB}, ks \in KeySets, tt \in 0 .. MaxT,
        pol \in Policies }

\* configurations for two instances: they differ in the term, in the rate
\* tables, in the policy, or in all three
TermConfigs ==
    { MkEnv(RowsA, Steps, Steps, MaxT - 2, <<1, 5>>),
      MkEnv(RowsB, Steps, Steps, MaxT, <<3, 2>>),
      MkEnv(RowsA, Steps, Steps, MaxT, <<1, 5>>),
      MkEnv(RowsB, Steps, Steps, MaxT - 2, <<1, 5>>) }

NoPv == [done |-> FALSE, rate |-> RZero, premiums |-> RZero,
         claims |-> RZero, net |-> RZero, tdone |-> FALSE, tnet |-> RZero]

-----------------------------------------------------------------------------
(* The notebook's cells, run top to bottom *)

\* print(num_in_force(t)) for t in range(T+1)
PrintInForce ==
    /\ pc = "inforce"
    /\ LET r == num_in_force(Env, i) IN
       IF r.err # "none"
       THEN /\ err' = r.err
            /\ pc' = "error"
            /\ UNCHANGED <<i, out>>
       ELSE /\ out' = Append(out, r.val)
            /\ IF i < T THEN i' = i + 1 /\ pc' = pc
                        ELSE i' = 0 /\ pc' = "cashflow"
            /\ UNCHANGED err
    /\ UNCHANGED <<q, w, T, P, S, cf, pv, term, stack, result, lin>>

\* print(claims(t), premiums(t), net_cashflow(t)) for t in range(T+1)
PrintCashflow ==
    /\ pc = "cashflow"
    /\ LET c == claims(Env, i)
           p == premiums(Env, i)
           n == net_cashflow(Env, i)
           bad == IF c.err # "none" THEN c.err
                  ELSE IF p.err # "none" THEN p.err ELSE n.err
       IN
       IF bad # "none"
       THEN /\ err' = bad
            /\ pc' = "error"
            /\ UNCHANGED <<i, cf>>
       ELSE /\ cf' = Append(cf, [claims |-> c.val, premiums |-> p.val,
                                 net_cashflow |-> n.val])
            /\ IF i < T THEN i' = i + 1 /\ pc' = pc
                        ELSE i' = 0 /\ pc' = "npv"
            /\ UNCHANGED err
    /\ UNCHANGED <<q, w, T, P, S, out, pv, term, stack, result, lin>>

\* npv(premiums, T, r), npv(claims, T, r), npv(net_cashflow, T, r)
NpvCells ==
    /\ pc = "npv"
    /\ \E r \in IntRates :
         LET a == npv([t \in 0 .. T - 1 |-> premiums(Env, t)], T, r)
             b == npv([t \in 0 .. T - 1 |-> claims(Env, t)], T, r)
             c == npv([t \in 0 .. T - 1 |-> net_cashflow(Env, t)], T, r)
             bad == IF a.err # "none" THEN a.err
                    ELSE IF b.err # "none" THEN b.err ELSE c.err
         IN
         IF bad # "none"
         THEN /\ err' = bad
              /\ pc' = "error"
              /\ UNCHANGED pv
         ELSE /\ pv' = [pv EXCEPT !.done = TRUE, !.rate = r,
                                  !.premiums = a.val, !.claims = b.val,
                                  !.net = c.val]
              /\ pc' = "term"
              /\ UNCHANGED err
    /\ UNCHANGED <<q, w, T, P, S, i, out, cf, term, stack, result, lin>>

-----------------------------------------------------------------------------
(* class Term(heavymodel.Model): the same functions as cached methods.     *)
(* A call state st carries the instance's cache, the number of times each  *)
(* method body has run (execs, bookkeeping only), the exception in flight  *)
(* and the value last returned.                                            *)

Instances == {1, 2}

Funcs == {"num_in_force", "num_deaths", "num_lapses",
          "claims", "premiums", "net_cashflow"}

Key(f, t) == <<f, t>>

NewState == [cache |-> <<>>, execs |-> <<>>, err |-> "none", ret |-> RZero]

\* bookkeeping: the body of f(t) starts executing
Executed(st, f, t) ==
    [st EXCEPT !.execs =
        IF Key(f, t) \in DOMAIN @ THEN [@ EXCEPT ![Key(f, t)] = @ + 1]
        ELSE (Key(f, t) :> 1) @@ @]

RECURSIVE Cached(_, _, _, _)

\* mutant: lapses are not taken out of the in-force population
Term_num_in_force_no_lapses(st, e, t) ==
    LET s0 == Executed(st, "num_in_force", t) IN
    IF t = 0 THEN [s0 EXCEPT !.ret = ROne]
    ELSE IF t >= e.T THEN [s0 EXCEPT !.ret = RZero]
    ELSE LET a == Cached(s0, e, "num_in_force", t - 1)
             b == Cached(a, e, "num_deaths", t - 1)
         IN  IF b.err # "none" THEN b
             ELSE [b EXCEPT !.ret = FSub(a.ret, b.ret)]

Term_num_in_force(st, e, t) ==
    LET s0 == Executed(st, "num_in_force", t) IN
    IF t = 0 THEN [s0 EXCEPT !.ret = ROne]
    ELSE IF t >= e.T THEN [s0 EXCEPT !.ret = RZero]
    ELSE LET a == Cached(s0, e, "num_in_force", t - 1)
             b == Cached(a, e, "num_deaths", t - 1)
             c == Cached(b, e, "num_lapses", t - 1)
         IN  IF c.err # "none" THEN c
             ELSE [c EXCEPT !.ret = FSub(FSub(a.ret, b.ret), c.ret)]

\* mutant: the death count calls the in-force body directly, not the
\* cached method
Term_num_deaths_uncached_call(st, e, t) ==
    LET s0 == Executed(st, "num_deaths", t) IN
    IF t < e.T
    THEN LET a == Term_num_in_force(s0, e, t)
             r == Lookup(e.q, t)
         IN  IF a.err # "none" THEN a
             ELSE IF r.err # "none" THEN [a EXCEPT !.err = r.err]
             ELSE [a EXCEPT !.ret = FMul(a.ret, r.val)]
    ELSE [s0 EXCEPT !.ret = RZero]

Term_num_deaths(st, e, t) ==
    LET s0 == Executed(st, "num_deaths", t) IN
    IF t < e.T
    THEN LET a == Cached(s0, e, "num_in_force", t)
             r == Lookup(e.q, t)
         IN  IF a.err # "none" THEN a
             ELSE IF r.err # "none" THEN [a EXCEPT !.err = r.err]
             ELSE [a EXCEPT !.ret = FMul(a.ret, r.val)]
    ELSE [s0 EXCEPT !.ret = RZero]

\* mutant: lapses read the death rates
Term_num_lapses_reads_q(st, e, t) ==
    LET s0 == Executed(st, "num_lapses", t) IN
    IF t < e.T
    THEN LET a == Cached(s0, e, "num_in_force", t)
             r == Lookup(e.q, t)
         IN  IF a.err # "none" THEN a
             ELSE IF r.err # "none" THEN [a EXCEPT !.err = r.err]
             ELSE [a EXCEPT !.ret = FMul(a.ret, r.val)]
    ELSE [s0 EXCEPT !.ret = RZero]

Term_num_lapses(st, e, t) ==
    LET s0 == Executed(st, "num_lapses", t) IN
    IF t < e.T
    THEN LET a == Cached(s0, e, "num_in_force", t)
             r == Lookup(e.w, t)
         IN  IF a.err # "none" THEN a
             ELSE IF r.err # "none" THEN [a EXCEPT !.err = r.err]
             ELSE [a EXCEPT !.ret = FMul(a.ret, r.val)]
    ELSE [s0 EXCEPT !.ret = RZero]

Term_claims(st, e, t) ==
    LET s0 == Executed(st, "claims", t)
        a == Cached(s0, e, "num_deaths", t)
    IN  IF a.err # "none" THEN a
        ELSE [a EXCEPT !.ret = FMul(a.ret, RInt(e.S))]

Term_premiums(st, e, t) ==
    LET s0 == Executed(st, "premiums", t)
        a == Cached(s0, e, "num_in_force", t)
    IN  IF a.err # "none" THEN a
        ELSE [a EXCEPT !.ret = FMul(a.ret, RInt(e.P))]

Term_net_cashflow(st, e, t) ==
    LET s0 == Executed(st, "net_cashflow", t)
        a == Cached(s0, e, "premiums", t)
        b == Cached(a, e, "claims", t)
    IN  IF b.err # "none" THEN b
        ELSE [b EXCEPT !.ret = FSub(a.ret, b.ret)]

\* the method body behind a name
TermBody(st, e, f, t) ==
    CASE f = "num_in_force" -> Term_num_in_force(st, e, t)
      [] f = "num_deaths"   -> Term_num_deaths(st, e, t)
      [] f = "num_lapses"   -> Term_num_lapses(st, e, t)
      [] f = "claims"       -> Term_claims(st, e, t)
      [] f = "premiums"     -> Term_premiums(st, e, t)
      [] f = "net_cashflow" -> Term_net_cashflow(st, e, t)

\* the cache around each public method of a heavymodel.Model: a value is
\* stored under (method, t) when the body returns, and returned from the
\* store afterwards; an exception passes through and stores nothing
Cached(st, e, f, t) ==
    IF st.err # "none" THEN st
    ELSE IF Key(f, t) \in DOMAIN st.cache
    THEN [st EXCEPT !.ret = st.cache[Key(f, t)]]
    ELSE LET b == TermBody(st, e, f, t)
         IN  IF b.err # "none" THEN b
             ELSE [b EXCEPT !.cache = (Key(f, t) :> b.ret) @@ @]

\* the order _run calls the methods in (the columns of term._dataframe())
RunOrder == <<"claims", "net_cashflow", "num_deaths", "num_in_force",
              "num_lapses", "premiums">>

\* the first k calls of _run: every method at t = 0, then at t = 1, ...
RECURSIVE RunSteps(_, _, _)
RunSteps(st, e, k) ==
    IF k <= 0 THEN st
    ELSE Cached(RunSteps(st, e, k - 1), e,
                RunOrder[((k - 1) % Len(RunOrder)) + 1],
                (k - 1) \div Len(RunOrder))

\* term._run(proj_len)
Run(st, e, proj_len) == RunSteps(st, e, proj_len * Len(RunOrder))

\* mutant: the model is run for T periods, without the expiry row
ProjLen_without_expiry(tt) == tt

\* the projection length the notebook runs the model for
ProjLen(tt) == tt + 1

NoInstance == [state |-> "none", cache |-> <<>>, execs |-> <<>>,
               own |-> <<>>]

\* term = Term(); term._run(T+1)
RunInstance(k) ==
    LET r == Run(NewState, Env, ProjLen(T)) IN
    /\ term' = [term EXCEPT ![k] =
                  [state |-> IF r.err = "none" THEN "run" ELSE "failed",
                   cache |-> r.cache, execs |-> r.execs, own |-> Env]]
    /\ err' = r.err

\* one more term of the sum: a is the state after the terms before it
TermAddTerm(a, e, f, v, k) ==
    LET b == Cached(a, e, f, k - 1)
    IN  IF b.err # "none" THEN b
        ELSE [b EXCEPT !.ret = FAdd(a.ret, FMul(b.ret, FPow(v, k)))]

\* sum(term.f(t) * v**(t+1) for t in range(k)) through the cache
RECURSIVE TermDiscountedSum(_, _, _, _, _)
TermDiscountedSum(st, e, f, v, k) ==
    IF k <= 0 THEN [st EXCEPT !.ret = RZero]
    ELSE TermAddTerm(TermDiscountedSum(st, e, f, v, k - 1), e, f, v, k)

\* the call state of an instance between calls
StateOf(k) == [cache |-> term[k].cache, execs |-> term[k].execs,
               err |-> "none", ret |-> RZero]

TermCell ==
    /\ pc = "term"
    /\ RunInstance(1)
    /\ pc' = IF err' = "none" THEN "ready" ELSE "error"
    /\ UNCHANGED <<q, w, T, P, S, i, out, cf, pv, stack, result, lin>>

\* the cell's outcome, r being the call state the sum ended in
TermNpvOutcome(r) ==
    /\ term' = [term EXCEPT ![1].cache = r.cache, ![1].execs = r.execs]
    /\ err' = r.err
    /\ IF r.err = "none"
       THEN pv' = [pv EXCEPT !.tdone = TRUE, !.tnet = r.ret] /\ pc' = "done"
       ELSE pv' = pv /\ pc' = "error"

\* npv(term.net_cashflow, T, r)
TermNpvCell ==
    /\ pc = "ready"
    /\ TermNpvOutcome(TermDiscountedSum(StateOf(1), Env, "net_cashflow",
                                        FDiv(ROne, FAdd(ROne, pv.rate)), T))
    /\ UNCHANGED <<q, w, T, P, S, i, out, cf, stack, result, lin>>

NoLin == [done |-> FALSE]

InitRest ==
    /\ pc = "inforce"
    /\ i = 0
    /\ out = <<>>
    /\ cf = <<>>
    /\ pv = NoPv
    /\ err = "none"
    /\ term = [k \in Instances |-> NoInstance]
    /\ stack = <<>>
    /\ result = [done |-> FALSE]
    /\ lin = NoLin

Globals(c) ==
    /\ q = c.q
    /\ w = c.w
    /\ T = c.T
    /\ P = c.P
    /\ S = c.S

Init ==
    /\ \E c \in Configs : Globals(c)
    /\ InitRest

Next ==
    \/ PrintInForce
    \/ PrintCashflow
    \/ NpvCells
    \/ TermCell
    \/ TermNpvCell

Spec == Init /\ [][Next]_vars

-----------------------------------------------------------------------------
(* Reference evaluations used by the properties *)

\* the plain function behind a name
Plain(e, f, t) ==
    CASE f = "num_in_force" -> num_in_force(e, t)
      [] f = "num_deaths"   -> num_deaths(e, t)
      [] f = "num_lapses"   -> num_lapses(e, t)
      [] f = "claims"       -> claims(e, t)
      [] f = "premiums"     -> premiums(e, t)
      [] f = "net_cashflow" -> net_cashflow(e, t)

\* one row of a bottom-up fill, from the row before it
BottomRow(e, t, prev) ==
    LET n == IF t = 0 THEN ROne
             ELSE IF t >= e.T THEN RZero
             ELSE FSub(FSub(prev.num_in_force, prev.num_deaths),
                       prev.num_lapses)
        d == IF t < e.T THEN FMul(n, e.q[t]) ELSE RZero
        l == IF t < e.T THEN FMul(n, e.w[t]) ELSE RZero
        c == FMul(d, RInt(e.S))
        p == FMul(n, RInt(e.P))
    IN  [num_in_force |-> n, num_deaths |-> d, num_lapses |-> l,
         claims |-> c, premiums |-> p, net_cashflow |-> FSub(p, c)]

\* rows 0 .. t filled iteratively from t = 0
RECURSIVE BottomUp(_, _)
BottomUp(e, t) ==
    IF t = 0 THEN <<BottomRow(e, 0, <<>>)>>
    ELSE LET rows == BottomUp(e, t - 1)
         IN  Append(rows, BottomRow(e, t, rows[t]))

\* the value instance k holds for f(t)
TermVal(k, f, t) == term[k].cache[Key(f, t)]

\* times the body of f(t) has run on instance k
Execs(k, f, t) ==
    IF Key(f, t) \in DOMAIN term[k].execs THEN term[k].execs[Key(f, t)]
    ELSE 0

\* time steps a caller may ask for beyond the term
Beyond == T .. MaxT + 2

-----------------------------------------------------------------------------
(* C1 *)

\* n0 = n1 + d + l, as the floats compare
Conserved(n0, n1, d, l) == n0 = FAdd(FAdd(n1, d), l)

\* n1 = n0 - d - l, subtracted in the order the recursion subtracts, and
\* n1 + d + l within two roundings of n0
Carried(n0, n1, d, l) ==
    /\ n1 = FSub(FSub(n0, d), l)
    /\ LET gap == RAbs(RSub(n0, RAdd(RAdd(n1, d), l)))
           size == RAdd(RAdd(RAbs(n0), RAbs(d)), RAbs(l))
       IN  RLeq(RMul(gap, RInt(Pow2(MantBits))), RMul(RInt(2), size))

ConservedAt(t, Holds(_, _, _, _)) ==
    /\ (Len(out) > t + 1 =>
          Holds(out[t + 1], out[t + 2], num_deaths(Env, t).val,
                num_lapses(Env, t).val))
    /\ (term[1].state = "run" =>
          Holds(TermVal(1, "num_in_force", t),
                TermVal(1, "num_in_force", t + 1),
                TermVal(1, "num_deaths", t), TermVal(1, "num_lapses", t)))

\* C1 as stated: num_in_force(t) = num_in_force(t+1) + num_deaths(t) +
\* num_lapses(t) for every t with 0 <= t < T, the last period t = T-1
\* included.
C1_ConservationToExpiry == \A t \in 0 .. T - 1 : ConservedAt(t, Conserved)

\* C1 amended: for every t with 0 <= t < T-1, num_in_force(t+1) =
\* num_in_force(t) - num_deaths(t) - num_lapses(t) as the recursion
\* subtracts them, and num_in_force(t+1) + num_deaths(t) + num_lapses(t) is
\* within rounding of num_in_force(t); the last period is left out, because
\* num_in_force(T) is the expiry value 0.
C1_ConservationBeforeExpiry == \A t \in 0 .. T - 2 : ConservedAt(t, Carried)

C1_Witness ==
    /\ T >= 3
    /\ Len(out) = T + 1
    /\ term[1].state = "run"
    /\ TermVal(1, "num_in_force", 2) # RZero
    /\ TermVal(1, "num_lapses", 1) # RZero

-----------------------------------------------------------------------------
(* C2 *)

\* C2: num_in_force(0) = 1 and num_in_force(t) = 0 for every t >= T, for
\* the plain function, the printed table, the values a run of Term holds and
\* the values its accessor returns beyond the term; T = 1 included.
C2_BoundaryValues ==
    /\ num_in_force(Env, 0) = Ok(ROne)
    /\ \A t \in Beyond : num_in_force(Env, t) = Ok(RZero)
    /\ (Len(out) >= 1 => out[1] = ROne)
    /\ (Len(out) = T + 1 => out[T + 1] = RZero)
    /\ (term[1].state = "run" =>
          /\ TermVal(1, "num_in_force", 0) = ROne
          /\ TermVal(1, "num_in_force", T) = RZero
          /\ \A t \in Beyond :
               LET r == Cached(StateOf(1), Env, "num_in_force", t)
               IN  r.err = "none" /\ r.ret = RZero)

C2_Witness ==
    /\ T = 1
    /\ Len(out) = 2
    /\ term[1].state = "run"
    /\ q[0] # ROne

-----------------------------------------------------------------------------
(* C4 *)

\* C4: after term._run(T+1), for every t in 0..T each of the six quantities
\* has the same value in the Term instance, from the plain recursion and in
\* a bottom-up fill from t = 0; and npv(term.net_cashflow) equals
\* npv(net_cashflow) and the discounted sum over the bottom-up rows.
C4_ThreeEvaluationsAgree ==
    /\ (term[1].state = "run" =>
          \A t \in 0 .. T : \A f \in Funcs :
             /\ Plain(Env, f, t) = Ok(TermVal(1, f, t))
             /\ BottomUp(Env, T)[t + 1][f] = TermVal(1, f, t))
    /\ (pv.tdone =>
          /\ pv.tnet = pv.net
          /\ Ok(pv.tnet) =
               npv([t \in 0 .. T - 1 |-> Ok(BottomUp(Env, T)[t + 1].net_cashflow)],
                   T, pv.rate))

C4_Witness ==
    /\ pv.tdone
    /\ T >= 3
    /\ pv.tnet # RZero
    /\ TermVal(1, "num_lapses", 2) # TermVal(1, "num_deaths", 2)

-----------------------------------------------------------------------------
(* C9 *)

ZeroRow == [claims |-> RZero, premiums |-> RZero, net_cashflow |-> RZero]

\* C9: for every t >= T, claims(t), premiums(t) and net_cashflow(t) are 0,
\* and the last row (t = T) of the printed cash-flow table and of the
\* projection a run of Term holds is all zeros.
C9_ExpiredCashflowsAreZero ==
    /\ \A t \in Beyond :
         /\ claims(Env, t) = Ok(RZero)
         /\ premiums(Env, t) = Ok(RZero)
         /\ net_cashflow(Env, t) = Ok(RZero)
    /\ (Len(cf) = T + 1 => cf[T + 1] = ZeroRow)
    /\ (term[1].state = "run" =>
          \A f \in Funcs : TermVal(1, f, T) = RZero)

C9_Witness ==
    /\ Len(cf) = T + 1
    /\ term[1].state = "run"
    /\ cf[T].premiums # RZero
    /\ cf[T].claims # RZero

-----------------------------------------------------------------------------
(* The notebook on any configuration it accepts *)

InitAny ==
    /\ \E c \in AnyConfigs : Globals(c)
    /\ InitRest

SpecAny == InitAny /\ [][Next]_vars

MissingRequiredRate ==
    \E t \in 0 .. T - 1 : t \notin DOMAIN q \/ t \notin DOMAIN w

-----------------------------------------------------------------------------
(* Two Term instances, the globals reassigned between them *)

\* the cells assigning q, w, P, S, T run again with other values, once the
\* first instance has run and before the second is constructed
SetGlobals(c) ==
    /\ pc = "instances"
    /\ term[1].state = "run"
    /\ term[2].state = "none"
    /\ Env = term[1].own
    /\ c # Env
    /\ q' = c.q
    /\ w' = c.w
    /\ T' = c.T
    /\ P' = c.P
    /\ S' = c.S
    /\ UNCHANGED <<pc, i, out, cf, pv, err, term, stack, result, lin>>

\* term = Term(); term._run(T+1), one instance after the other
ConstructAndRun(k) ==
    /\ pc = "instances"
    /\ term[k].state = "none"
    /\ \A j \in Instances : j < k => term[j].state = "run"
    /\ RunInstance(k)
    /\ pc' = IF err' = "none" THEN pc ELSE "error"
    /\ UNCHANGED <<q, w, T, P, S, i, out, cf, pv, stack, result, lin>>

\* term.f(t) on an instance that has run
Access(k, f, t) ==
    /\ pc = "instances"
    /\ term[k].state = "run"
    /\ LET r == Cached(StateOf(k), Env, f, t) IN
       /\ term' = [term EXCEPT ![k].cache = r.cache, ![k].execs = r.execs]
       /\ err' = r.err
       /\ pc' = IF r.err = "none" THEN pc ELSE "error"
    /\ UNCHANGED <<q, w, T, P, S, i, out, cf, pv, stack, result, lin>>

InitTerm ==
    /\ \E c \in TermConfigs : Globals(c)
    /\ pc = "instances"
    /\ i = 0
    /\ out = <<>>
    /\ cf = <<>>
    /\ pv = NoPv
    /\ err = "none"
    /\ term = [k \in Instances |-> NoInstance]
    /\ stack = <<>>
    /\ result = [done |-> FALSE]
    /\ lin = NoLin

\* the time steps accessor calls ask for: every step of the longer term,
\* which lies beyond the shorter one
AccessSteps == 0 .. MaxT - 1

NextTerm ==
    \/ \E c \in TermConfigs : SetGlobals(c)
    \/ \E k \in Instances : ConstructAndRun(k)
    \/ \E k \in Instances, f \in Funcs, t \in AccessSteps : Access(k, f, t)

SpecTerm == InitTerm /\ [][NextTerm]_vars

-----------------------------------------------------------------------------
(* C3 *)

\* C3: over term._run(T+1) and any accessor calls after it, the body of
\* each (function, t) has run at most once on an instance, and a request for
\* a pair the instance holds returns the held value and runs no body.
C3_BodiesRunAtMostOnce ==
    \A k \in Instances :
        /\ \A key \in DOMAIN term[k].execs : term[k].execs[key] <= 1
        /\ (term[k].state = "run" =>
              /\ \A f \in Funcs : \A t \in 0 .. term[k].own.T :
                    Execs(k, f, t) = 1
              /\ \A key \in DOMAIN term[k].cache :
                    LET r == Cached(StateOf(k), Env, key[1], key[2])
                    IN  /\ r.ret = term[k].cache[key]
                        /\ r.execs = term[k].execs
                        /\ r.cache = term[k].cache)

C3_Witness ==
    /\ term[1].state = "run"
    /\ term[2].state = "run"
    /\ \E f \in Funcs :
          /\ Key(f, term[1].own.T + 1) \in DOMAIN term[1].cache
          /\ Key("num_in_force", term[1].own.T + 1) \in DOMAIN term[1].cache
          /\ f # "num_in_force"

-----------------------------------------------------------------------------
(* C5 *)

\* C5: with two instances run one after the other under different globals,
\* every value an instance holds, and every value an accessor call on it
\* would return, is the value the plain recursion gives for the globals
\* the instance was constructed and run under.
C5_InstancesIsolated ==
    \A k \in Instances :
        term[k].state = "run" =>
            /\ \A key \in DOMAIN term[k].cache :
                  Plain(term[k].own, key[1], key[2]) = Ok(term[k].cache[key])
            /\ \A f \in Funcs : \A t \in 0 .. MaxT + 1 :
                  LET r == Cached(StateOf(k), Env, f, t)
                  IN  /\ r.err = "none"
                      /\ Plain(term[k].own, f, t) = Ok(r.ret)

C5_Witness ==
    /\ term[1].state = "run"
    /\ term[2].state = "run"
    /\ term[1].own.q # term[2].own.q
    /\ term[1].own.P # term[2].own.P
    /\ term[1].own.T < T - 1
    /\ Key("num_lapses", T - 1) \in DOMAIN term[1].cache
    /\ TermVal(2, "num_lapses", T - 1) # RZero

-----------------------------------------------------------------------------
(* C6 *)

\* C6: when a rate table lacks an entry for a required t in 0..T-1, the
\* notebook stops with MissingRateError and has produced no row of any
\* table, nor a value in the Term instance.
C6_MissingRateFailsClean ==
    (MissingRequiredRate /\ pc = "error") =>
        /\ err = "MissingRateError"
        /\ out = <<>>
        /\ cf = <<>>
        /\ term[1].cache = <<>>

-----------------------------------------------------------------------------
(* C7 *)

\* C7: if T <= 0 no value is computed: no table row is printed, no present
\* value is returned and the Term instance holds nothing.
C7_NonPositiveTermFailsFast ==
    T <= 0 =>
        /\ out = <<>>
        /\ cf = <<>>
        /\ ~pv.done
        /\ term[1].state = "none"

-----------------------------------------------------------------------------
(* npv applied to two cash-flow sequences and to a combination of them *)

CashValues == { RInt(-1), RZero, Rat(3, 2) }

\* the scalars (a, b)
Scalars == { <<RInt(1), RInt(1)>>, <<RInt(3), Rat(-1, 2)>> }

\* t |-> a*f(t) + b*g(t)
Combined(a, f, b, g) ==
    [t \in DOMAIN f |-> Add(Mul(Ok(a), Ok(f[t])), Mul(Ok(b), Ok(g[t])))]

Returning(f) == [t \in DOMAIN f |-> Ok(f[t])]

\* either two drawn sequences of one length below MaxT and two scalars, or
\* the notebook's own premiums and claims, combined as premiums - claims
InitNpv ==
    /\ \E c \in Configs : Globals(c)
    /\ \/ /\ Env = MkEnv(RowsA, Steps, Steps, MaxT, <<1, 5>>)
          /\ \E h \in 0 .. MaxT - 1, ab \in Scalars, r \in IntRates :
               \E f \in [0 .. h - 1 -> CashValues],
                  g \in [0 .. h - 1 -> CashValues] :
                  lin = [done |-> FALSE, kind |-> "drawn", f |-> f, g |-> g,
                         a |-> ab[1], b |-> ab[2], rate |-> r, h |-> h]
       \/ \E r \in IntRates :
            lin = [done |-> FALSE, kind |-> "cells",
                   f |-> [t \in 0 .. T - 1 |-> premiums(Env, t).val],
                   g |-> [t \in 0 .. T - 1 |-> claims(Env, t).val],
                   a |-> RInt(1), b |-> RInt(-1), rate |-> r, h |-> T]
    /\ pc = "npv"
    /\ i = 0
    /\ out = <<>>
    /\ cf = <<>>
    /\ pv = NoPv
    /\ err = "none"
    /\ term = [k \in Instances |-> NoInstance]
    /\ stack = <<>>
    /\ result = [done |-> FALSE]

\* npv of the combination, and the combination of the npvs; for the
\* notebook's flows the combination is the function net_cashflow itself
NpvLinear ==
    /\ ~lin.done
    /\ lin.kind \in {"drawn", "cells"}
    /\ LET whole ==
             IF lin.kind = "cells"
             THEN npv([t \in 0 .. T - 1 |-> net_cashflow(Env, t)], T, lin.rate)
             ELSE npv(Combined(lin.a, lin.f, lin.b, lin.g), lin.h, lin.rate)
           parts ==
             Add(Mul(Ok(lin.a), npv(Returning(lin.f), lin.h, lin.rate)),
                 Mul(Ok(lin.b), npv(Returning(lin.g), lin.h, lin.rate)))
       IN  lin' = [done |-> TRUE, kind |-> lin.kind, f |-> lin.f, g |-> lin.g,
                   a |-> lin.a, b |-> lin.b, rate |-> lin.rate, h |-> lin.h,
                   whole |-> whole.val, parts |-> parts.val]
    /\ UNCHANGED <<q, w, T, P, S, pc, i, out, cf, pv, err, term, stack, result>>

NextNpv == NpvLinear

SpecNpv == InitNpv /\ [][NextNpv]_vars

-----------------------------------------------------------------------------
(* C8 *)

\* the present value of |f|: the terms |f(t)| * v**(t+1), each discount
\* factor a float, added exactly
RECURSIVE AbsSum(_, _, _)
AbsSum(f, v, k) ==
    IF k <= 0 THEN RZero
    ELSE RAdd(AbsSum(f, v, k - 1), RMul(RAbs(f[k - 1]), FPow(v, k)))

\* C8 as stated: npv(a*f + b*g) = a*npv(f) + b*npv(g), and
\* npv(net_cashflow) = npv(premiums) - npv(claims).
C8_NpvLinear == lin.done => lin.whole = lin.parts

\* C8 amended: npv(a*f + b*g) and a*npv(f) + b*npv(g) agree up to
\* floating-point rounding: with u the unit roundoff 2^-MantBits and
\* k = term + 4 (the roundings a term goes through), they differ by at most
\* 2*k*u/(1 - k*u) * (|a|*PV(|f|) + |b|*PV(|g|)); the same for
\* npv(net_cashflow) against npv(premiums) - npv(claims).
C8_NpvLinearWithinRounding ==
    lin.done =>
        LET v == FDiv(ROne, FAdd(ROne, lin.rate))
            k == lin.h + 4
            size == RAdd(RMul(RAbs(lin.a), AbsSum(lin.f, v, lin.h)),
                         RMul(RAbs(lin.b), AbsSum(lin.g, v, lin.h)))
            gap == RAbs(RSub(lin.whole, lin.parts))
        IN  /\ k < Pow2(MantBits)
            /\ RLeq(RMul(gap, RInt(Pow2(MantBits) - k)),
                    RMul(RInt(2 * k), size))

C8_Witness ==
    /\ lin.done
    /\ lin.kind = "cells"
    /\ lin.h = MaxT
    /\ lin.whole # lin.parts
    /\ lin.whole # RZero

-----------------------------------------------------------------------------
(* One request to a plain function, call by call. The stack holds a frame  *)
(* per active call: the function, its argument, how many of its calls have *)
(* returned (step) and the value it has accumulated (acc).                 *)

RecFuncs == {"num_in_force", "num_deaths", "num_lapses"}

\* the arguments asked for: below 0, within the term and beyond it
RequestSteps == (0 - 2) .. (MaxT + 1)

Frame(f, t) == [f |-> f, t |-> t, step |-> 0, acc |-> RZero]

Top == stack[Len(stack)]
Below == SubSeq(stack, 1, Len(stack) - 1)

\* mutant: num_in_force without the expiry branch
InForceCase_no_expiry(e, t) == IF t = 0 THEN "one" ELSE "recurse"

\* the branch num_in_force takes
InForceCase(e, t) ==
    IF t = 0 THEN "one" ELSE IF t >= e.T THEN "zero" ELSE "recurse"

\* the top call returns v to its caller
DoReturn(v) ==
    /\ stack' = Below
    /\ result' = [result EXCEPT !.val = v, !.returning = (Below # <<>>),
                                !.done = (Below = <<>>)]

\* an exception unwinds the whole stack
DoRaise(kind) ==
    /\ stack' = <<>>
    /\ result' = [result EXCEPT !.err = kind, !.returning = FALSE,
                                !.done = TRUE]

\* the top call, updated to fr, calls f(t)
DoCall(fr, f, t) ==
    IF Len(stack) >= RecursionLimit THEN DoRaise("RecursionError")
    ELSE /\ stack' = Append(Append(Below, fr), Frame(f, t))
         /\ result' = [result EXCEPT !.returning = FALSE,
                                     !.calls = @ + 1]

\* the top call starts executing its body; result.calls counts the calls
\* made so far
Call ==
    /\ pc = "request"
    /\ stack # <<>>
    /\ ~result.returning
    /\ LET fr == Top
           nx == [fr EXCEPT !.step = 1]
       IN  IF fr.f = "num_in_force"
           THEN CASE InForceCase(Env, fr.t) = "one" -> DoReturn(ROne)
                  [] InForceCase(Env, fr.t) = "zero" -> DoReturn(RZero)
                  [] OTHER -> DoCall(nx, "num_in_force", fr.t - 1)
           ELSE IF fr.t < T THEN DoCall(nx, "num_in_force", fr.t)
                ELSE DoReturn(RZero)
    /\ UNCHANGED <<q, w, T, P, S, pc, i, out, cf, pv, err, term, lin>>

\* a call has returned result.val to the top call, which goes on
Return ==
    /\ pc = "request"
    /\ stack # <<>>
    /\ result.returning
    /\ LET fr == Top
           v == result.val
       IN  IF fr.f = "num_in_force"
           THEN CASE fr.step = 1 ->
                       DoCall([fr EXCEPT !.step = 2, !.acc = v],
                              "num_deaths", fr.t - 1)
                  [] fr.step = 2 ->
                       DoCall([fr EXCEPT !.step = 3, !.acc = FSub(fr.acc, v)],
                              "num_lapses", fr.t - 1)
                  [] OTHER -> DoReturn(FSub(fr.acc, v))
           ELSE LET r == Lookup(IF fr.f = "num_deaths" THEN q ELSE w, fr.t)
                IN  IF r.err # "none" THEN DoRaise(r.err)
                    ELSE DoReturn(FMul(v, r.val))
    /\ UNCHANGED <<q, w, T, P, S, pc, i, out, cf, pv, err, term, lin>>

InitRec ==
    /\ \E c \in TermConfigs : Globals(c)
    /\ \E f \in RecFuncs, t \in RequestSteps :
         /\ stack = <<Frame(f, t)>>
         /\ result = [done |-> FALSE, returning |-> FALSE, err |-> "none",
                      val |-> RZero, f |-> f, t |-> t, calls |-> 1]
    /\ pc = "request"
    /\ i = 0
    /\ out = <<>>
    /\ cf = <<>>
    /\ pv = NoPv
    /\ err = "none"
    /\ term = [k \in Instances |-> NoInstance]
    /\ lin = NoLin

NextRec == Call \/ Return

SpecRec == InitRec /\ [][NextRec]_vars

-----------------------------------------------------------------------------
(* C10 *)

\* C10 as stated: whatever integer t is requested, the stack never holds
\* more frames than a bound linear in T and the request does not recurse
\* without bound.
C10_EveryRequestBounded ==
    /\ Len(stack) <= 2 * T
    /\ result.err # "RecursionError"

\* calls a request can make: 3^(T+1) bounds the calls of the uncached
\* recursion
RECURSIVE CallBound(_)
CallBound(tt) == IF tt < 0 THEN 1 ELSE 3 * CallBound(tt - 1)

\* C10 amended: for every integer t >= 0 requested of num_in_force,
\* num_deaths or num_lapses, the stack never holds more than 2*T frames, the
\* request makes at most 3^(T+1) calls, and until it has returned a value
\* a call is active and no exception has been raised.
C10_NonNegativeRequestsReturn ==
    result.t >= 0 =>
        /\ Len(stack) <= 2 * T
        /\ result.err = "none"
        /\ result.calls <= CallBound(T)
        /\ (result.done \/ stack # <<>>)

C10_Witness ==
    /\ Len(stack) = 2 * T
    /\ T = MaxT
    /\ result.t = T - 1
    /\ Top.t = 0

-----------------------------------------------------------------------------
(* C11 *)

\* every rate of a live period is a probability and the two leave at most
\* the whole population, in exact arithmetic
ValidRates ==
    \A t \in 0 .. T - 1 :
        /\ t \in DOMAIN q /\ t \in DOMAIN w
        /\ RLeq(RZero, q[t]) /\ RLeq(RZero, w[t])
        /\ RLeq(RAdd(q[t], w[t]), ROne)

\* n is a probability and the d + l leaving it are between 0 and n
Occupancy(n, d, l) ==
    /\ RLeq(RZero, n) /\ RLeq(n, ROne)
    /\ RLeq(RZero, FAdd(d, l)) /\ RLeq(FAdd(d, l), n)

\* C11: if 0 <= q[t], 0 <= w[t] and q[t] + w[t] <= 1 for every t in
\* 0..T-1, then for every t in 0..T: 0 <= num_in_force(t) <= 1,
\* num_in_force(t+1) <= num_in_force(t), and 0 <= num_deaths(t) +
\* num_lapses(t) <= num_in_force(t); on the printed table and on the values
\* a run of Term holds.
C11_OccupancyIsProbability ==
    ValidRates =>
        /\ \A t \in 0 .. T :
              Len(out) > t =>
                 /\ Occupancy(out[t + 1], num_deaths(Env, t).val,
                              num_lapses(Env, t).val)
                 /\ (t >= 1 => RLeq(out[t + 1], out[t]))
        /\ (term[1].state = "run" =>
              \A t \in 0 .. T :
                 /\ Occupancy(TermVal(1, "num_in_force", t),
                              TermVal(1, "num_deaths", t),
                              TermVal(1, "num_lapses", t))
                 /\ (t >= 1 => RLeq(TermVal(1, "num_in_force", t),
                                    TermVal(1, "num_in_force", t - 1))))

====
